---------------------------- MODULE Spec2Model ----------------------------
(***************************************************************************)
(* Heston calibration script (src/heston_calibration.py) as a state        *)
(* machine.                                                                *)
(*                                                                         *)
(* Two specifications share the definitions below:                         *)
(*   Spec          the script from the loaded DataFrame to the end of the  *)
(*                 local refinement: market parity check, filters, seed,   *)
(*                 seed parity check, differential_evolution with          *)
(*                 callback_ga, minimize with callback;                    *)
(*   SpecCallback  callback_ga alone, driven from a fresh `state` by an    *)
(*                 arbitrary sequence of recomputed losses.                *)
(*                                                                         *)
(* Numbers are fixed point.  Losses are integers in units of 1e-8          *)
(* (LossScale per 1.0); prices, strikes and vegas are integers in units    *)
(* of 1e-3 (PriceScale per 1.0); parameters are integers in units of 1e-6  *)
(* (ParamScale per 1.0).  Floats that can be infinite or NaN carry a kind. *)
(***************************************************************************)
EXTENDS Integers, Sequences, FiniteSets, TLC

VARIABLES pc, df, parity_mkt, parity_seed, x0, state, cb, ev, loss_history, nit

vars == <<pc, df, parity_mkt, parity_seed, x0, state, cb, ev, loss_history, nit>>

---------------------------------------------------------------------------
(* Bounds of the model *)

\* callback_ga invocations explored by SpecCallback (more than PATIENCE_CB + 1)
MaxIters == 10

---------------------------------------------------------------------------
(* IEEE doubles as far as callback_ga needs them *)

Fin(n) == [k |-> "fin", v |-> n]
Inf == [k |-> "inf", v |-> 0]
NegInf == [k |-> "ninf", v |-> 0]
NaN == [k |-> "nan", v |-> 0]

IntAbs(n) == IF n < 0 THEN -n ELSE n

\* a - b
FSub(a, b) ==
    IF a.k = "nan" \/ b.k = "nan" THEN NaN
    ELSE IF a.k = "fin" /\ b.k = "fin" THEN Fin(a.v - b.v)
    ELSE IF a.k = "fin" THEN (IF b.k = "inf" THEN NegInf ELSE Inf)
    ELSE IF b.k = "fin" THEN a
    ELSE IF a.k = b.k THEN NaN
    ELSE a

\* a < b
FLt(a, b) ==
    IF a.k = "nan" \/ b.k = "nan" THEN FALSE
    ELSE IF a.k = "fin" /\ b.k = "fin" THEN a.v < b.v
    ELSE IF a.k = b.k THEN FALSE
    ELSE a.k = "ninf" \/ b.k = "inf"

\* abs(a)
FAbs(a) ==
    IF a.k = "fin" THEN Fin(IntAbs(a.v))
    ELSE IF a.k = "nan" THEN NaN
    ELSE Inf

\* a * b > c for integers with b > 0, without forming the product (which
\* would leave the 32-bit range): a * b > c  <=>  a > c / b  <=>  a > floor(c / b)
MulGt(a, b, c) == a > c \div b

---------------------------------------------------------------------------
(* Early-stopping hyperparameters *)

\* (price error / weight) is kept to 1 / RatioScale
RatioScale == 10000

\* 1.0 in loss units (1e-8)
LossScale == RatioScale * RatioScale

PATIENCE_CB == 8

\* MIN_REL_IMPROV = 1e-5 = 1 / MinRelImprovDen
MinRelImprovDen == 100000

\* MIN_ABS_IMPROV = 1e-6, in loss units
MIN_ABS_IMPROV == 100

MAX_SECONDS_CB == "None"

\* the 1e-12 of max(abs(prev), 1e-12) is 1 / RelFloorDen loss units
RelFloorDen == 10000

\* rel_impr > MIN_REL_IMPROV, with rel_impr = (prev - cur) / max(abs(prev), 1e-12)
\* Python's max(a, b) is b when b > a and a otherwise.
RelImprGt(prev, cur) ==
    LET num == FSub(prev, cur)
        aprev == FAbs(prev)
    IN  IF num.k = "nan" \/ aprev.k = "nan" THEN FALSE
        ELSE IF aprev.k = "inf"
             \* finite / inf = 0, inf / inf = NaN: neither exceeds the threshold
             THEN FALSE
        ELSE IF num.k = "inf" THEN TRUE
        ELSE IF num.k = "ninf" THEN FALSE
        ELSE IF aprev.v >= 1
             \* num / |prev| > 1 / MinRelImprovDen
             THEN MulGt(num.v, MinRelImprovDen, aprev.v)
             \* num / (1 / RelFloorDen) > 1 / MinRelImprovDen
             ELSE MulGt(num.v, MinRelImprovDen, 1 \div RelFloorDen)

\* abs_impr > MIN_ABS_IMPROV, with abs_impr = prev - cur
AbsImprGt(prev, cur) ==
    LET d == FSub(prev, cur)
    IN  IF d.k = "fin" THEN d.v > MIN_ABS_IMPROV ELSE d.k = "inf"

improved_strict(prev, cur) == FLt(cur, prev) /\ RelImprGt(prev, cur)

improved_anychange(prev, cur) == AbsImprGt(prev, cur) \/ AbsImprGt(cur, prev)

improved(prev, cur) ==
    FLt(cur, prev) /\ (RelImprGt(prev, cur) \/ AbsImprGt(prev, cur))

\* the state dictionary as constructed
FreshState == [best |-> Inf, best_x |-> "None", iters |-> 0, stale |-> 0]

\* nothing observed yet
NoCallback ==
    [n |-> 0, xk |-> <<>>, prev |-> Inf, prevStale |-> 0, prevIters |-> 0,
     cur |-> Inf, ret |-> FALSE, stops |-> 0, stopAt |-> 0, flat |-> TRUE]

\* state after the update of one invocation
StateAfter(s, cur) ==
    IF improved(s.best, cur)
    THEN [s EXCEPT !.iters = s.iters + 1, !.best = cur, !.stale = 0]
    ELSE [s EXCEPT !.iters = s.iters + 1, !.stale = s.stale + 1]

StopSignal_early(s, elapsed) == s.stale >= PATIENCE_CB - 1

\* the value callback_ga returns
StopSignal(s, elapsed) ==
    IF MAX_SECONDS_CB # "None" /\ elapsed >= MAX_SECONDS_CB THEN TRUE
    ELSE IF PATIENCE_CB # 0 /\ s.stale >= PATIENCE_CB THEN TRUE
    ELSE FALSE

\* callback_ga with the recomputed loss cur; cb records the invocation:
\* what it saw, what it returned, and whether the run so far is a fresh run
\* of finite losses none of which, after the first, counted as an improvement
CallbackGa(xk, cur, elapsed) ==
    LET s2 == StateAfter(state, cur)
        r == StopSignal(s2, elapsed)
    IN  /\ state' = s2
        /\ cb' = [n |-> cb.n + 1,
                  xk |-> xk,
                  prev |-> state.best,
                  prevStale |-> state.stale,
                  prevIters |-> state.iters,
                  cur |-> cur,
                  ret |-> r,
                  stops |-> cb.stops + (IF r THEN 1 ELSE 0),
                  stopAt |-> IF r /\ cb.stops = 0 THEN cb.n + 1 ELSE cb.stopAt,
                  flat |-> /\ cb.flat
                           /\ cur.k = "fin"
                           /\ (cb.n >= 1 => s2.stale = state.stale + 1)]

---------------------------------------------------------------------------
(* Fixed point *)

\* 1.0 in price units (1e-3): prices, strikes, vegas
PriceScale == 1000

\* 1.0 in parameter units (1e-6): the Heston vector and its bounds
ParamScale == 1000000

\* 1.0 in implied-volatility units (1e-3); IV * IV is then in parameter units
IVScale == 1000

\* np.exp(x) for x in percent-years, times PriceScale
NpExp(x) ==
    CASE x = -10 -> 905
      [] x = -5 -> 951
      [] x = 0 -> 1000
      [] x = 5 -> 1051
      [] x = 10 -> 1105

Max2(a, b) == IF b > a THEN b ELSE a

RECURSIVE SeqMax(_)
\* np.max of a non-empty array
SeqMax(s) == IF Len(s) = 1 THEN s[1] ELSE Max2(s[1], SeqMax(Tail(s)))

RECURSIVE SeqSum(_)
SeqSum(s) == IF Len(s) = 0 THEN 0 ELSE s[1] + SeqSum(Tail(s))

\* a rational weight num / den, in price units
Rat(n, d) == [num |-> n, den |-> d]

---------------------------------------------------------------------------
(* The DataFrame *)

\* spot, read from the workbook: 100.0
S0 == 100 * PriceScale

\* One row as loaded: T = 'To expiry' (years), r = 'Risk Free' and
\* q = 'Impl (Yld)' (percent), Mny = 'Moneyness' (percent), IV (1e-3), and
\* what black_scholes_calculator returns for the row: call = bs.price(call),
\* put_err = bs.price(put) minus the parity value of the call, vega = bs.vega.
Row(T, r, q, Mny, IV, call, put_err, vega) ==
    [T |-> T, r |-> r, q |-> q, Mny |-> Mny, IV |-> IV,
     call |-> call, put_err |-> put_err, vega |-> vega]

\* The rows a workbook may hold
Rows ==
    { Row(1, 0, 0, 100, 200, 8000, 0, 2000),    \* at the money, vega below price
      Row(1, 5, 0, 110, 200, 3000, 0, 20000),   \* same expiry, other rate; vega above price
      Row(2, 5, 5, 95, 5, 9000, -1, 0),         \* put side, tiny IV, put below parity, no vega
      Row(2, 5, 5, 110, 1500, 3000, 1, 2000),   \* large IV, put above parity
      Row(1, 0, 0, 70, 200, 31000, 0, 2000),    \* outside the moneyness band
      Row(2, 0, 0, 100, 0, 8000, 0, 2000),      \* no quoted IV
      Row(2, 5, 5, 95, 200, 4000, 0, 2000) }    \* put price not positive

\* rows of a workbook
MaxQuotes == 3

Tables == UNION { [1..n -> Rows] : n \in 0..MaxQuotes }

\* df['CalcFwd'], df['ImplFwd']
ImplFwd(row) == (S0 * NpExp((row.r - row.q) * row.T)) \div PriceScale

\* df['Strike']
Strike(row) == (ImplFwd(row) * row.Mny) \div 100

\* Strike * exp(-r T) - S0 * exp(-q T)
ParityTerm(row) ==
    (Strike(row) * NpExp(-(row.r * row.T))) \div PriceScale
    - (S0 * NpExp(-(row.q * row.T))) \div PriceScale

\* df['Market call price']
MarketCall(row) == row.call

\* df['Market put price']
MarketPut(row) == row.call + ParityTerm(row) + row.put_err

\* df['Market put price C/P']
MarketPutCP(row) == MarketCall(row) + ParityTerm(row)

\* df['Option type']
OptionType(row) == IF row.Mny >= 100 THEN "call" ELSE "put"

\* df['Market price']
MarketPrice(row) == IF row.Mny >= 100 THEN MarketCall(row) ELSE MarketPut(row)

\* df['Vega']
Vega(row) == row.vega

\* df.apply(f, axis=1) on a DataFrame without rows returns a DataFrame, and
\* assigning it to one column raises or not with the pandas version
ApplyOnEmptyOutcomes == {"raises", "assigns"}

---------------------------------------------------------------------------
(* heston_vanilla_pricer, the characteristic-function pricer *)

\* truncation terms when the caller passes none
HP_DEFAULT_N == 128

\* K * exp(-r T)
DiscK(K, r, T) == (K * NpExp(-(r * T))) \div PriceScale

\* S0 * exp(-q T)
DiscS(q, T) == (S0 * NpExp(-(q * T))) \div PriceScale

\* the pricer's put minus the parity value of its call: exact inside the
\* usual variance range, off by one unit outside it
HpParityErr(x) ==
    IF x[1] < 100 THEN -1 ELSE IF x[1] > ParamScale THEN 1 ELSE 0

\* hp.vanilla_price for one strike: a deterministic function of every argument
HestonPrice(T, K, r, q, x, side, N) ==
    LET fwdval == DiscS(q, T) - DiscK(K, r, T)
        tv == (x[1] \div 20) * T + x[3] \div 100 + x[2] \div 10000
              + x[4] \div 1000 + x[5] \div 1000 + x[6] + (200 - N) \div 10
              + 3 * r * T - 2 * q * T
        call == Max2(fwdval, 0) + tv
    IN  IF side = "call" THEN call ELSE call - fwdval + HpParityErr(x)

\* hp.vanilla_price for a batch of strikes and sides sharing T, r and q
BatchPrice(T, Kj, rj, qj, x, optj, N) ==
    [i \in 1..Len(Kj) |-> HestonPrice(T, Kj[i], rj, qj, x, optj[i], N)]

---------------------------------------------------------------------------
(* loss_function *)

\* vega_floor = 1e-12, the default: 1 / VegaFloorDen price units
VegaFloorDen == 1000000000

VEGA_FLOOR_DEFAULT == Rat(1, VegaFloorDen)

\* an integer amount of price units as a weight
RatInt(n) == Rat(n, 1)

\* vega < floor, for vega an integer amount of price units:
\* v < num / den  <=>  v < ceil(num / den)
RatLt(a, b) == a.num < b.num \div b.den + (IF b.num % b.den = 0 THEN 0 ELSE 1)

\* np.maximum(vega, vega_floor), elementwise (a scalar floor arrives broadcast)
NpMaximum(vega, floor) ==
    [i \in 1..Len(vega) |-> IF RatLt(vega[i], floor[i]) THEN floor[i] ELSE vega[i]]

\* the loss has not been evaluated
NoEval == [caller |-> "none"]

Uninit == 0 - 1

RECURSIVE SortedSeq(_)
\* the elements of a set of integers in ascending order
SortedSeq(S) ==
    IF S = {} THEN <<>>
    ELSE LET m == CHOOSE a \in S : \A b \in S : a <= b
         IN  <<m>> \o SortedSeq(S \ {m})

\* np.unique(T)
NpUnique(T) == SortedSeq({T[i] : i \in 1..Len(T)})

NpWhere_first(T, Tj) ==
    LET all == SortedSeq({i \in 1..Len(T) : T[i] = Tj}) IN <<all[1]>>

\* np.where(T == Tj)[0]
NpWhere(T, Tj) == SortedSeq({i \in 1..Len(T) : T[i] = Tj})

\* a[idx]
Take(a, idx) == [k \in 1..Len(idx) |-> a[idx[k]]]

GroupRate_whole(col, idx) == col[1]

\* float(r[idx][0]), float(q[idx][0])
GroupRate(col, idx) == Take(col, idx)[1]

\* model_prices[idx] = pj
Scatter(a, idx, pj) ==
    [i \in 1..Len(a) |->
        IF \E k \in 1..Len(idx) : idx[k] = i
        THEN pj[CHOOSE k \in 1..Len(idx) : idx[k] = i]
        ELSE a[i]]

RECURSIVE MaturityLoop(_, _, _, _)
\* for Tj in uniq_T: one oracle call per maturity.  acc carries model_prices,
\* the oracle calls made so far and how often each position was written.
MaturityLoop(uniq, d, x, acc) ==
    IF Len(uniq) = 0 THEN acc
    ELSE LET Tj == uniq[1]
             T == [i \in 1..Len(d) |-> d[i].T]
             K == [i \in 1..Len(d) |-> Strike(d[i])]
             r == [i \in 1..Len(d) |-> d[i].r]
             q == [i \in 1..Len(d) |-> d[i].q]
             opt_type == [i \in 1..Len(d) |-> OptionType(d[i])]
             idx == NpWhere(T, Tj)
             Kj == Take(K, idx)
             rj == GroupRate(r, idx)
             qj == GroupRate(q, idx)
             optj == Take(opt_type, idx)
             pj == BatchPrice(Tj, Kj, rj, qj, x, optj, 185)
         IN  MaturityLoop(Tail(uniq), d, x,
                 [model_prices |-> Scatter(acc.model_prices, idx, pj),
                  calls |-> Append(acc.calls,
                               [T |-> Tj, idx |-> idx, K |-> Kj, r |-> rj,
                                q |-> qj, opt |-> optj]),
                  writes |-> [i \in 1..Len(d) |->
                                 acc.writes[i]
                                 + Cardinality({k \in 1..Len(idx) : idx[k] = i})]])

\* np.mean(((market_prices - model_prices) / vega) ** 2); NaN without rows
MeanSquare(market_prices, model_prices, vega) ==
    LET n == Len(market_prices)
        ratio(i) == ((market_prices[i] - model_prices[i]) * RatioScale * vega[i].den)
                    \div vega[i].num
    IN  IF n = 0 THEN NaN
        ELSE Fin(SeqSum([i \in 1..n |-> ratio(i) * ratio(i)]) \div n)

\* loss_function(heston_params, df, market_prices, vega_floor): the argument
\* market_prices is overwritten from df before it is read
loss_function(heston_params, d, market_prices_arg, vega_floor) ==
    LET n == Len(d)
        T == [i \in 1..n |-> d[i].T]
        market_prices == [i \in 1..n |-> MarketPrice(d[i])]
        vega == NpMaximum([i \in 1..n |-> RatInt(Vega(d[i]))], vega_floor)
        out == MaturityLoop(NpUnique(T), d, heston_params,
                   [model_prices |-> [i \in 1..n |-> Uninit],
                    calls |-> <<>>,
                    writes |-> [i \in 1..n |-> 0]])
    IN  [x |-> heston_params,
         vega |-> vega,
         model_prices |-> out.model_prices,
         calls |-> out.calls,
         writes |-> out.writes,
         loss |-> MeanSquare(market_prices, out.model_prices, vega)]

\* mkt_arr = df['Market price'].to_numpy()
mkt_arr(d) == [i \in 1..Len(d) |-> RatInt(MarketPrice(d[i]))]

\* option_args = (S0, df['Risk Free'], df['Impl (Yld)'])
option_args(d) == <<S0, [i \in 1..Len(d) |-> d[i].r], [i \in 1..Len(d) |-> d[i].q]>>

\* A call loss_function(x, df, option_args, mkt_arr), as the optimizers and both
\* callbacks make it: option_args lands in market_prices, the market prices
\* land in vega_floor
LossCall(caller, x, d) ==
    [caller |-> caller] @@ loss_function(x, d, option_args(d), mkt_arr(d))

---------------------------------------------------------------------------
(* Put/call parity checks *)

\* the tolerance 1e-10 is 1 / ParityTolDen price units
ParityTolDen == 10000000

\* np.max(diffs) < 1e-10; np.max of no rows is NaN, and NaN < 1e-10 is False
ParityReported(diffs) ==
    IF Len(diffs) = 0 THEN FALSE ELSE SeqMax(diffs) * ParityTolDen < 1

\* what was printed, and beside it whether some row is off parity by the
\* tolerance or more in either direction
ParityCheck(diffs) ==
    [reported |-> ParityReported(diffs),
     rows |-> Len(diffs),
     deviates |-> \E i \in 1..Len(diffs) : ~(IntAbs(diffs[i]) * ParityTolDen < 1)]

NoParity == [reported |-> FALSE, rows |-> 0 - 1, deviates |-> FALSE]

\* df['Market put price'] - df['Market put price C/P']
MarketParityDiffs(d) == [i \in 1..Len(d) |-> MarketPut(d[i]) - MarketPutCP(d[i])]

\* diffs = heston_puts - heston_puts_via_parity, at the seed
HestonParityDiffs(d, x) ==
    [i \in 1..Len(d) |->
        LET row == d[i]
            K == Strike(row)
            heston_call == HestonPrice(row.T, K, row.r, row.q, x, "call", HP_DEFAULT_N)
            heston_put == HestonPrice(row.T, K, row.r, row.q, x, "put", HP_DEFAULT_N)
        IN  heston_put - (heston_call + ParityTerm(row))]

---------------------------------------------------------------------------
(* Initial Heston parameters *)

RECURSIVE IdxMin(_, _)
\* Series.idxmin(): the first position of the least value, from position i on
IdxMin(s, i) ==
    IF i = Len(s) THEN i
    ELSE LET j == IdxMin(s, i + 1) IN IF s[j] < s[i] THEN j ELSE i

IdxMinRaises_never(d) == FALSE

\* idxmin of a Series without rows raises ValueError
IdxMinRaises(d) == Len(d) = 0

\* x0 = [v0_init, kappa_init, theta_init, sigma_init, rho_init, 0.0], with
\* v0_init = max(1e-6, iv_atm_guess ** 2); max(1e-6, nan) is 1e-6
x0_seed(d) ==
    LET v0_init ==
            IF Len(d) = 0 THEN ParamScale \div 1000000
            ELSE LET iv_atm_guess ==
                         d[IdxMin([i \in 1..Len(d) |-> IntAbs(Strike(d[i]) - S0)], 1)].IV
                 IN  Max2(ParamScale \div 1000000, iv_atm_guess * iv_atm_guess)
    IN  <<v0_init, 3 * ParamScale, v0_init, ParamScale \div 2, -(ParamScale \div 2), 0>>

bounds ==
    << <<ParamScale \div 10000, ParamScale>>,
       <<ParamScale \div 10000, 15 * ParamScale>>,
       <<ParamScale \div 10000, ParamScale>>,
       <<ParamScale \div 10000, 2 * ParamScale>>,
       <<-((9 * ParamScale) \div 10), ParamScale \div 10>>,
       <<0, 0>> >>

InBounds(x) == \A i \in 1..6 : bounds[i][1] <= x[i] /\ x[i] <= bounds[i][2]

\* parameter vectors the optimizers try: inside the bounds box
Candidates ==
    { <<40000, 2000000, 40000, 400000, -600000, 0>>,
      <<60000, 3000000, 60000, 500000, -500000, 0>> }

---------------------------------------------------------------------------
(* The script *)

\* generations of differential_evolution explored (maxiter=100 in the script)
MaxGen == 1

\* iterations of L-BFGS-B explored (max_iter = 100 in the script)
MaxLocal == 1

Init ==
    /\ pc = "loaded"
    /\ df \in Tables
    /\ parity_mkt = NoParity
    /\ parity_seed = NoParity
    /\ x0 = <<>>
    /\ state = FreshState
    /\ cb = NoCallback
    /\ ev = NoEval
    /\ loss_history = <<>>
    /\ nit = 0

\* where the script goes after df[col] = df.apply(..., axis=1)
AfterApply(d, next) ==
    IF Len(d) = 0
    THEN \E o \in ApplyOnEmptyOutcomes :
            pc' = IF o = "raises" THEN "error_setitem" ELSE next
    ELSE pc' = next

\* df = df[df["IV"] > 0]; market call and put prices by df.apply
MarketPrices ==
    /\ pc = "loaded"
    /\ LET d == SelectSeq(df, LAMBDA row : row.IV > 0)
       IN  df' = d /\ AfterApply(d, "parity")
    /\ UNCHANGED <<parity_mkt, parity_seed, x0, state, cb, ev, loss_history, nit>>

\* the put/call parity check on market data prints its verdict; the script
\* goes on whatever it is
MarketParityCheck ==
    /\ pc = "parity"
    /\ parity_mkt' = ParityCheck(MarketParityDiffs(df))
    /\ pc' = "filters"
    /\ UNCHANGED <<df, parity_seed, x0, state, cb, ev, loss_history, nit>>

PricesPositive(row) == MarketPut(row) > 0 /\ MarketCall(row) > 0

InBand(row) == row.Mny >= 80 /\ row.Mny <= 120

\* positive prices, the moneyness band, reset_index
Filters ==
    /\ pc = "filters"
    /\ df' = SelectSeq(SelectSeq(df, PricesPositive), InBand)
    /\ pc' = "options"
    /\ UNCHANGED <<parity_mkt, parity_seed, x0, state, cb, ev, loss_history, nit>>

\* option type and market price by np.where, vega by df.apply
SimulationOptions ==
    /\ pc = "options"
    /\ AfterApply(df, "seed")
    /\ UNCHANGED <<df, parity_mkt, parity_seed, x0, state, cb, ev, loss_history, nit>>

\* the heuristic seed; idxmin raises when no row is left
Seed ==
    /\ pc = "seed"
    /\ IF IdxMinRaises(df)
       THEN pc' = "error_idxmin" /\ x0' = x0
       ELSE pc' = "seedcheck" /\ x0' = x0_seed(df)
    /\ UNCHANGED <<df, parity_mkt, parity_seed, state, cb, ev, loss_history, nit>>

\* put/call parity under Heston at the seed, printed
SeedParityCheck ==
    /\ pc = "seedcheck"
    /\ parity_seed' = ParityCheck(HestonParityDiffs(df, x0))
    /\ pc' = "de"
    /\ UNCHANGED <<df, parity_mkt, x0, state, cb, ev, loss_history, nit>>

\* differential_evolution scores a candidate
DEEvaluate ==
    /\ pc = "de"
    /\ ~cb.ret
    /\ \E x \in Candidates : ev' = LossCall("differential_evolution", x, df)
    /\ UNCHANGED <<pc, df, parity_mkt, parity_seed, x0, state, cb, loss_history, nit>>

ElapsedValues == {0, 1}

\* a generation ends: callback_ga(xk, convergence) recomputes the loss at xk
DEGeneration ==
    /\ pc = "de"
    /\ ~cb.ret
    /\ nit < MaxGen
    /\ \E xk \in Candidates, elapsed \in ElapsedValues :
          LET e == LossCall("callback_ga", xk, df)
          IN  ev' = e /\ CallbackGa(xk, e.loss, elapsed)
    /\ nit' = nit + 1
    /\ UNCHANGED <<pc, df, parity_mkt, parity_seed, x0, loss_history>>

\* differential_evolution returns after a generation (callback said stop,
\* converged, or maxiter); x0 = result_de.x, the best member the last
\* callback was given
DEFinish ==
    /\ pc = "de"
    /\ cb.ret \/ nit >= 1
    /\ x0' = cb.xk
    /\ pc' = "local"
    /\ UNCHANGED <<df, parity_mkt, parity_seed, state, cb, ev, loss_history, nit>>

\* minimize scores a point
LocalEvaluate ==
    /\ pc = "local"
    /\ \E x \in Candidates : ev' = LossCall("minimize", x, df)
    /\ UNCHANGED <<pc, df, parity_mkt, parity_seed, x0, state, cb, loss_history, nit>>

\* an L-BFGS-B iteration ends: callback(params) appends the loss
LocalIteration ==
    /\ pc = "local"
    /\ Len(loss_history) < MaxLocal
    /\ \E params \in Candidates :
          LET e == LossCall("callback", params, df)
          IN  ev' = e /\ loss_history' = Append(loss_history, e.loss)
    /\ UNCHANGED <<pc, df, parity_mkt, parity_seed, x0, state, cb, nit>>

\* minimize returns
LocalFinish ==
    /\ pc = "local"
    /\ pc' = "done"
    /\ UNCHANGED <<df, parity_mkt, parity_seed, x0, state, cb, ev, loss_history, nit>>

Next ==
    \/ MarketPrices
    \/ MarketParityCheck
    \/ Filters
    \/ SimulationOptions
    \/ Seed
    \/ SeedParityCheck
    \/ DEEvaluate
    \/ DEGeneration
    \/ DEFinish
    \/ LocalEvaluate
    \/ LocalIteration
    \/ LocalFinish

Spec == Init /\ [][Next]_vars

---------------------------------------------------------------------------
(* SpecCallback: callback_ga under a synthetic loss sequence *)

\* recomputed losses, in loss units: around 0, around 0.2, and non-finite
LossValues ==
    {Fin(0), Fin(40), Fin(50), Fin(19999890), Fin(19999950), Fin(20000000), Inf, NaN}

InitCallback ==
    /\ pc = "de"
    /\ df = <<>>
    /\ parity_mkt = NoParity
    /\ parity_seed = NoParity
    /\ x0 = <<>>
    /\ state = FreshState
    /\ cb = NoCallback
    /\ ev = NoEval
    /\ loss_history = <<>>
    /\ nit = 0

\* the driver invokes the callback once per generation until it returns True
SyntheticGeneration ==
    /\ pc = "de"
    /\ ~cb.ret
    /\ cb.n < MaxIters
    /\ \E cur \in LossValues, elapsed \in ElapsedValues :
          CallbackGa(<<>>, cur, elapsed)
    /\ UNCHANGED <<pc, df, parity_mkt, parity_seed, x0, ev, loss_history, nit>>

NextCallback == SyntheticGeneration

SpecCallback == InitCallback /\ [][NextCallback]_vars

---------------------------------------------------------------------------
(* Properties of callback_ga, checked under SpecCallback *)

\* C1: from a fresh state and with no time budget, on a run of finite losses
\* none of which after the first counts as an improvement, callback_ga
\* returns True exactly once, on invocation PATIENCE_CB + 1, and False on
\* invocations 1..PATIENCE_CB; the driver makes no further invocation.
C1_StopOnPatiencePlusOne ==
    (cb.flat /\ cb.n >= 1) =>
        /\ cb.n <= PATIENCE_CB + 1
        /\ cb.ret = (cb.n = PATIENCE_CB + 1)
        /\ cb.stops = (IF cb.n = PATIENCE_CB + 1 THEN 1 ELSE 0)
        /\ (cb.stops = 1 => cb.stopAt = PATIENCE_CB + 1)

C1_Witness ==
    /\ cb.flat
    /\ cb.n = PATIENCE_CB + 1
    /\ cb.ret
    /\ cb.stops = 1
    /\ state.stale = PATIENCE_CB

\* C7: across callback_ga invocations state["best"] never increases, and it
\* changes only when the current loss is strictly below the previous best
\* (and then becomes the current loss).
C7_BestNonIncreasing ==
    cb.n >= 1 =>
        /\ state.best.k # "nan"
        /\ ~FLt(cb.prev, state.best)
        /\ (state.best # cb.prev => FLt(cb.cur, cb.prev) /\ state.best = cb.cur)

C7_Witness ==
    /\ cb.n >= 2
    /\ cb.prev.k = "fin"
    /\ FLt(state.best, cb.prev)

\* the improvement test as the claim words it, over the extended reals:
\* against a previous best of +infinity every finite loss improves (the
\* absolute improvement is infinite); against a finite one the loss must be
\* lower and clear the relative or the absolute threshold
ClaimedImprovement(prev, cur) ==
    /\ cur.k = "fin"
    /\ \/ prev.k = "inf"
       \/ /\ prev.k = "fin"
          /\ cur.v < prev.v
          /\ \/ /\ (prev.v - cur.v) > IntAbs(prev.v) \div MinRelImprovDen
                /\ (prev.v - cur.v) > 0
             \/ (prev.v - cur.v) > MIN_ABS_IMPROV

\* C9: an invocation counts as an improvement iff cur < prev and the relative
\* improvement exceeds MIN_REL_IMPROV or the absolute one MIN_ABS_IMPROV; then
\* stale becomes 0 and best becomes cur, otherwise stale grows by 1 and best
\* stays; iters grows by 1 either way; also on the first invocation.
C9_ImprovementTest ==
    cb.n >= 1 =>
        /\ state.iters = cb.prevIters + 1
        /\ IF ClaimedImprovement(cb.prev, cb.cur)
           THEN state.stale = 0 /\ state.best = cb.cur
           ELSE state.stale = cb.prevStale + 1 /\ state.best = cb.prev

C9_Witness ==
    /\ cb.n >= 2
    /\ cb.prev.k = "fin"
    /\ FLt(cb.cur, cb.prev)
    /\ state.stale = cb.prevStale + 1
    /\ state.best = cb.prev

---------------------------------------------------------------------------
(* Properties of the script, checked under Spec *)

\* C2: the seed vector lies inside the bounds box whatever the table
C2_SeedInBounds == pc \in {"seedcheck", "de"} => InBounds(x0)

\* C3: when some quote is off put/call parity by more than the tolerance,
\* the run stops before optimization: neither optimizer starts, no loss is
\* evaluated.
C3_ParityFailureStopsRun ==
    parity_mkt.deviates => (pc \notin {"de", "local", "done"} /\ ev = NoEval)

\* the weight the default vega_floor gives a quote
DefaultWeight(row) == NpMaximum(<<RatInt(Vega(row))>>, <<VEGA_FLOOR_DEFAULT>>)[1]

\* C4: in every loss evaluation each quote's error is divided by
\* max(vega of the quote, 1e-12), and the loss is the mean of the squared
\* weighted errors.
C4_WeightIsFlooredVega ==
    ev # NoEval =>
        /\ \A i \in 1..Len(df) : ev.vega[i] = DefaultWeight(df[i])
        /\ ev.loss = MeanSquare([i \in 1..Len(df) |-> MarketPrice(df[i])],
                                ev.model_prices,
                                [i \in 1..Len(df) |-> DefaultWeight(df[i])])

\* every quote priced on its own (T, K, r, q, side) with the same oracle, the
\* same weights and the same aggregation
RowwiseLoss(x, d, vega) ==
    MeanSquare([i \in 1..Len(d) |-> MarketPrice(d[i])],
               [i \in 1..Len(d) |->
                   HestonPrice(d[i].T, Strike(d[i]), d[i].r, d[i].q, x,
                               OptionType(d[i]), 185)],
               vega)

\* quotes with the same time-to-expiry have the same rate and the same yield
SharedRates(d) ==
    \A i, j \in 1..Len(d) :
        d[i].T = d[j].T => (d[i].r = d[j].r /\ d[i].q = d[j].q)

\* C5 as stated: for every non-empty table the grouped loss equals the loss
\* from pricing every quote individually.
C5_BatchedEqualsRowwise ==
    (ev # NoEval /\ Len(df) >= 1) => ev.loss = RowwiseLoss(ev.x, df, ev.vega)

\* C5 amended: for every non-empty table whose quotes of one time-to-expiry
\* share rate and yield, the grouped loss equals the loss from pricing every
\* quote individually.
C5_BatchedEqualsRowwiseSharedRates ==
    (ev # NoEval /\ Len(df) >= 1 /\ SharedRates(df)) =>
        ev.loss = RowwiseLoss(ev.x, df, ev.vega)

C5_Witness ==
    /\ ev # NoEval
    /\ SharedRates(df)
    /\ Len(df) = 3
    /\ df[1].T = df[3].T
    /\ df[1].T # df[2].T
    /\ df[1] # df[3]
    /\ df[1].r # df[2].r

\* no row is left after the filters
EmptyAfterFilters == df = <<>> /\ pc \notin {"loaded", "parity", "filters"}

\* C6: when no row is left after the filters, the run ends in an error
\* before the optimizers: no generation, no callback, no loss evaluation
\* ever, and the only way on from the seed step is the error.
C6_EmptyTableFailsFast ==
    /\ [](EmptyAfterFilters =>
            /\ pc \in {"options", "seed", "error_setitem", "error_idxmin"}
            /\ ev = NoEval
            /\ nit = 0
            /\ cb.n = 0
            /\ loss_history = <<>>)
    /\ [][(EmptyAfterFilters /\ pc = "seed") => pc' = "error_idxmin"]_vars

C6_Witness ==
    /\ pc = "error_idxmin"
    /\ df = <<>>
    /\ parity_mkt.rows >= 1

\* the positions of the table with time-to-expiry T, ascending
PositionsOf(d, T) == SortedSeq({i \in 1..Len(d) : d[i].T = T})

\* C8: one loss evaluation calls the oracle once per distinct time-to-expiry,
\* with all strikes of that expiry; the groups' positions partition the
\* table; every position of model_prices is written once, with the price of
\* the quote at that position.
C8_OneOracleCallPerMaturity ==
    ev # NoEval =>
        LET n == Len(df)
            Ts == {df[i].T : i \in 1..n}
            C == 1..Len(ev.calls)
        IN  /\ Len(ev.calls) = Cardinality(Ts)
            /\ \A T \in Ts :
                  /\ Cardinality({c \in C : ev.calls[c].T = T}) = 1
                  /\ \A c \in C :
                        ev.calls[c].T = T =>
                            /\ ev.calls[c].idx = PositionsOf(df, T)
                            /\ ev.calls[c].K =
                                   [k \in 1..Len(PositionsOf(df, T)) |->
                                       Strike(df[PositionsOf(df, T)[k]])]
            /\ \A i \in 1..n :
                  /\ Cardinality({c \in C :
                         \E k \in 1..Len(ev.calls[c].idx) : ev.calls[c].idx[k] = i}) = 1
                  /\ ev.writes[i] = 1
                  /\ \A c \in C :
                        ev.calls[c].T = df[i].T =>
                            ev.model_prices[i] =
                                HestonPrice(df[i].T, Strike(df[i]), ev.calls[c].r,
                                            ev.calls[c].q, ev.x, OptionType(df[i]), 185)

C8_Witness ==
    /\ ev # NoEval
    /\ Len(df) = 3
    /\ df[1].T = df[3].T
    /\ df[1].T # df[2].T
    /\ Len(ev.calls) = 2
    /\ ev.writes = <<1, 1, 1>>

\* C10: a parity check reports success iff every quote is within the
\* tolerance of parity in absolute value (tables with at least one quote).
C10_ParityReportIffWithinTolerance ==
    /\ parity_mkt.rows >= 1 => (parity_mkt.reported = ~parity_mkt.deviates)
    /\ parity_seed.rows >= 1 => (parity_seed.reported = ~parity_seed.deviates)

=============================================================================
